---- MODULE Spec2Model ----
(***************************************************************************)
(* deepretina/toolbox.py: the model loader (load_model,                    *)
(* load_partial_model, list_layers, get_weights) and the evaluator         *)
(* (get_test_responses, get_correlation, get_performance).                 *)
(*                                                                         *)
(* Every operation is a one-shot call.  The loader operations are one      *)
(* action each.  The evaluator is followed line by line (pc), because the  *)
(* order of its steps (loading the split, the forward passes, the metric   *)
(* lookup) is what some of the properties below are about.                 *)
(*                                                                         *)
(* Python exceptions are the values of result.exc; a call that raised      *)
(* returns nothing (result.value stays None).                              *)
(***************************************************************************)
EXTENDS Integers, Sequences, FiniteSets, TLC

\* ------------------------------------------------------------------ bounds
MaxBatches == 2     \* the largest test split has MaxBatches full batches + 1 sample
MaxHandles == 2     \* open weight-file handles are counted up to here
MaxLayers  == 2     \* the largest model has this many layers

\* ------------------------------------------------------- program constants
BatchSize == 50     \* datagen(50, ...)

None == <<>>

\* ---------------------------------------------------------------- helpers
Min(a, b) == IF a < b THEN a ELSE b

\* ------------------------------------------------------- module namespace
\* The names the module binds at import time (lines 6-14).  get_test_responses
\* uses the global name datagen, which none of these lines binds: it resolves
\* only when the importing session has put it into the module's namespace.
ImportedNames ==
    {"np", "theano", "h5py", "os", "tableprint", "model_from_json", "loadexpt", "metrics"}

\* --------------------------------------------------------------- strings
\* A name is a sequence of characters; "U+00E9" stands for one non-ASCII
\* character.
NonAscii == {"U+00E9"}

IsAscii(ch) == ch \notin NonAscii

\* s.encode('ascii', 'ignore'): the characters that are ASCII, in order
encode(s) == SelectSeq(s, IsAscii)

EmptyStr == <<>>

\* ------------------------------------------------------------ weight files
\* An h5 weight file: whether it can be opened, and its top-level groups in
\* enumeration order, each with its datasets in enumeration order.
Dataset(name, tensor) == [name |-> name, tensor |-> tensor]

Group(name, datasets) == [name |-> name, datasets |-> datasets]

param_0 == <<"p", "0">>
param_1 == <<"p", "1">>
layer_0 == <<"l", "0">>
layer_1 == <<"l", "1">>
layer_2 == <<"l", "2">>
layer_e == <<"l", "U+00E9">>

Both(w, b) == <<Dataset(param_0, w), Dataset(param_1, b)>>

WeightFiles ==
    { [id |-> "missing.h5", exists |-> FALSE, groups |-> <<>>],
      [id |-> "empty.h5",   exists |-> TRUE,  groups |-> <<>>],
      [id |-> "conv.h5",    exists |-> TRUE,
       groups |-> << Group(layer_0, Both("W0", "b0")),
                     Group(layer_1, <<>>),
                     Group(layer_2, Both("W2", "b2")) >>],
      [id |-> "accent.h5",  exists |-> TRUE,
       groups |-> << Group(layer_e, Both("We", "be")),
                     Group(layer_0, <<>>) >>],
      [id |-> "single.h5",  exists |-> TRUE,
       groups |-> << Group(layer_0, Both("W0", "b0")),
                     Group(layer_1, <<Dataset(param_0, "W1")>>),
                     Group(layer_2, <<>>) >>] }

LayerNames == {layer_0, layer_1, layer_2, layer_e}
SlotNames  == {param_0, param_1}

\* h5py's group[name]: the member of that name, or KeyError
HasMember(members, name) == \E i \in 1..Len(members) : members[i].name = name

Member(members, name) ==
    members[CHOOSE i \in 1..Len(members) : members[i].name = name]

\* list(group): the member names in enumeration order
Names(members) == [i \in 1..Len(members) |-> members[i].name]

\* ------------------------------------------------------------------ state
VARIABLES
    module_globals,  \* names bound in the module's namespace
    pc,              \* "idle", or the line the running evaluator call is at
    call,            \* the running (or last) call: [op, args]
    result,          \* its outcome: [status, exc, value]
    open_handles,    \* weight-file handles opened by toolbox code and not closed
    arch_open,       \* whether load_model's architecture file handle is open
    arch_opens,      \* load_model: times the architecture file was opened
    weight_opens,    \* load_model: times the weight file was opened
    printed,         \* list_layers: the lines printed
    test_data,       \* get_test_responses: the loaded split, or None
    batches,         \* the batch generator: index ranges still to be emitted
    truth,           \* get_test_responses: truth
    predictions,     \* get_test_responses: predictions
    forward,         \* model.predict calls made by the running call
    metric_func      \* the resolved metric, or None

vars == <<module_globals, pc, call, result, open_handles, arch_open, arch_opens,
          weight_opens, printed, test_data, batches, truth, predictions, forward,
          metric_func>>

evaluator == <<test_data, batches, truth, predictions, forward, metric_func>>

loader == <<arch_open, arch_opens, weight_opens, printed>>

NoResult == [status |-> "none", exc |-> "", value |-> None]

Return(v) == [status |-> "return", exc |-> "", value |-> v]

Raise(e) == [status |-> "raise", exc |-> e, value |-> None]

Init ==
    /\ module_globals \in {ImportedNames, ImportedNames \cup {"datagen"}}
    /\ pc = "idle"
    /\ call = [op |-> "none", args |-> None]
    /\ result = NoResult
    /\ open_handles = 0
    /\ arch_open = FALSE
    /\ arch_opens = 0
    /\ weight_opens = 0
    /\ printed = <<>>
    /\ test_data = None
    /\ batches = <<>>
    /\ truth = <<>>
    /\ predictions = <<>>
    /\ forward = 0
    /\ metric_func = None

\* Entering a call: what the previous call left behind is no longer looked at.
FreshEvaluator ==
    /\ test_data' = None
    /\ batches' = <<>>
    /\ truth' = <<>>
    /\ predictions' = <<>>
    /\ forward' = 0
    /\ metric_func' = None

FreshLoader ==
    /\ arch_open' = FALSE
    /\ arch_opens' = 0
    /\ weight_opens' = 0
    /\ printed' = <<>>

\* ============================================================ model loader

\* ---------------------------------------------------------------- load_model
ArchStates   == {"ok", "absent", "corrupt"}
WeightStates == {"ok", "absent", "incompatible"}
WeightNames  == {"epoch018_iter01300_weights.h5", "epoch001_weights.h5"}

\* open(os.path.join(model_path, 'architecture.json'), 'r')
open_ok(arch) == arch # "absent"

\* model_from_json(architecture_string)
model_from_json_ok(arch) == arch = "ok"

\* model.load_weights(os.path.join(model_path, weight_filename))
load_weights_ok(wstate) == wstate = "ok"

\* Faulty variant: a failure of load_weights is swallowed and the model returned.
load_model_swallow(arch, wname, wstate) ==
    IF ~open_ok(arch)
    THEN [result |-> Raise("IOError"), arch_opens |-> 1, weight_opens |-> 0]
    ELSE IF ~model_from_json_ok(arch)
    THEN [result |-> Raise("ValueError"), arch_opens |-> 1, weight_opens |-> 0]
    ELSE [result |-> Return([architecture |-> "architecture.json",
                             weights |-> IF load_weights_ok(wstate) THEN wname ELSE "initial"]),
          arch_opens |-> 1, weight_opens |-> 1]

\* The outcome of load_model, with the number of times each file was opened.
load_model_result(arch, wname, wstate) ==
    IF ~open_ok(arch)
    THEN [result |-> Raise("IOError"), arch_opens |-> 1, weight_opens |-> 0]
    ELSE IF ~model_from_json_ok(arch)
    THEN [result |-> Raise("ValueError"), arch_opens |-> 1, weight_opens |-> 0]
    ELSE IF ~load_weights_ok(wstate)
    THEN [result |-> Raise(IF wstate = "absent" THEN "IOError" ELSE "Exception"),
          arch_opens |-> 1, weight_opens |-> 1]
    ELSE [result |-> Return([architecture |-> "architecture.json", weights |-> wname]),
          arch_opens |-> 1, weight_opens |-> 1]

load_model ==
    /\ pc = "idle"
    /\ \E arch \in ArchStates, wname \in WeightNames, wstate \in WeightStates :
          LET r == load_model_result(arch, wname, wstate) IN
          /\ call' = [op |-> "load_model",
                      args |-> [arch |-> arch, weight_filename |-> wname, wstate |-> wstate]]
          /\ result' = r.result
          /\ arch_opens' = r.arch_opens
          /\ weight_opens' = r.weight_opens
    \* the with block closes the architecture file on every way out of it;
    \* load_weights opens and closes the weight file inside the library
    /\ arch_open' = FALSE
    /\ printed' = <<>>
    /\ FreshEvaluator
    /\ UNCHANGED <<module_globals, pc, open_handles>>

\* -------------------------------------------------------- load_partial_model
\* A model's layer sequence: layer i has an input and an output variable.
Layers(n) == [i \in 1..n |-> [input |-> <<"input", i - 1>>, output |-> <<"output", i - 1>>]]

\* Python's list[i]: 0 <= i < n counts from the front, -n <= i < 0 from the back
PyIndexOK(s, i) == -Len(s) <= i /\ i < Len(s)

PyIndex(s, i) == IF i >= 0 THEN s[i + 1] ELSE s[Len(s) + i + 1]

\* Faulty variant: negative indices are rejected.
load_partial_model_nonneg(layers, layer_id) ==
    IF ~PyIndexOK(layers, 0) \/ ~PyIndexOK(layers, layer_id) \/ layer_id < 0
    THEN Raise("IndexError")
    ELSE Return([inputs |-> <<PyIndex(layers, 0).input>>,
                 outputs |-> PyIndex(layers, layer_id).output])

\* theano.function([model.layers[0].input], model.layers[layer_id].get_output(train=False))
load_partial_model_result(layers, layer_id) ==
    IF ~PyIndexOK(layers, 0) \/ ~PyIndexOK(layers, layer_id)
    THEN Raise("IndexError")
    ELSE Return([inputs |-> <<PyIndex(layers, 0).input>>,
                 outputs |-> PyIndex(layers, layer_id).output])

load_partial_model ==
    /\ pc = "idle"
    /\ \E n \in 0..MaxLayers, layer_id \in -(MaxLayers + 1)..(MaxLayers + 1) :
          /\ call' = [op |-> "load_partial_model", args |-> [n |-> n, layer_id |-> layer_id]]
          /\ result' = load_partial_model_result(Layers(n), layer_id)
    /\ FreshEvaluator
    /\ FreshLoader
    /\ UNCHANGED <<module_globals, pc, open_handles>>

\* --------------------------------------------------------------- list_layers
Hr     == [kind |-> "hr", cols |-> <<>>]
Header == [kind |-> "header", cols |-> <<"layer", "weights", "biases">>]
Row(cols) == [kind |-> "row", cols |-> cols]

\* Faulty variant: a layer without parameters prints nothing.
layer_row_skip(g) ==
    LET params == Names(g.datasets) IN
    IF params # <<>>
    THEN IF Len(params) < 2
         THEN [exc |-> "IndexError", lines |-> <<>>]
         ELSE [exc |-> "", lines |-> <<Row(<<encode(g.name), encode(params[1]), encode(params[2])>>)>>]
    ELSE [exc |-> "", lines |-> <<>>]

\* The body of the loop for one layer: the row printed, or the exception.
\* params[-1][0] and params[-1][1] are evaluated before anything is printed.
layer_row(g) ==
    LET params == Names(g.datasets) IN
    IF params # <<>>
    THEN IF Len(params) < 2
         THEN [exc |-> "IndexError", lines |-> <<>>]
         ELSE [exc |-> "", lines |-> <<Row(<<encode(g.name), encode(params[1]), encode(params[2])>>)>>]
    ELSE [exc |-> "", lines |-> <<Row(<<encode(g.name), EmptyStr, EmptyStr>>)>>]

\* The loop over layer_names: the lines printed until the loop ends or raises.
RECURSIVE layer_loop(_)
layer_loop(groups) ==
    IF groups = <<>>
    THEN [exc |-> "", lines |-> <<>>]
    ELSE LET r == layer_row(Head(groups)) IN
         IF r.exc # ""
         THEN r
         ELSE LET rest == layer_loop(Tail(groups)) IN
              [exc |-> rest.exc, lines |-> r.lines \o rest.lines]

list_layers ==
    /\ pc = "idle"
    /\ \E f \in WeightFiles :
          /\ call' = [op |-> "list_layers", args |-> [file |-> f]]
          /\ IF ~f.exists
             THEN /\ result' = Raise("IOError")
                  /\ printed' = <<>>
                  /\ open_handles' = open_handles
             ELSE LET r == layer_loop(f.groups) IN
                  /\ open_handles < MaxHandles
                  \* h5py.File(...) is never closed
                  /\ open_handles' = open_handles + 1
                  /\ printed' = <<Hr, Header, Hr>> \o r.lines
                                  \o (IF r.exc = "" THEN <<Hr>> ELSE <<>>)
                  /\ result' = IF r.exc = "" THEN Return(None) ELSE Raise(r.exc)
    /\ arch_open' = FALSE
    /\ arch_opens' = 0
    /\ weight_opens' = 0
    /\ FreshEvaluator
    /\ UNCHANGED <<module_globals, pc>>

\* --------------------------------------------------------------- get_weights
\* Faulty variant: the slot name is ignored and the first dataset returned.
get_weights_first(f, layer_name, weight_name) ==
    IF ~HasMember(f.groups, layer_name)
    THEN Raise("KeyError")
    ELSE LET g == Member(f.groups, layer_name) IN
         IF g.datasets = <<>>
         THEN Raise("KeyError")
         ELSE Return(g.datasets[1].tensor)

\* weight_file[layer_name][weight_name] on an opened file
get_weights_result(f, layer_name, weight_name) ==
    IF ~HasMember(f.groups, layer_name)
    THEN Raise("KeyError")
    ELSE LET g == Member(f.groups, layer_name) IN
         IF ~HasMember(g.datasets, weight_name)
         THEN Raise("KeyError")
         ELSE Return(Member(g.datasets, weight_name).tensor)

get_weights ==
    /\ pc = "idle"
    /\ \E f \in WeightFiles, layer_name \in LayerNames, weight_name \in SlotNames :
          /\ call' = [op |-> "get_weights",
                      args |-> [file |-> f, layer_name |-> layer_name, weight_name |-> weight_name]]
          /\ IF ~f.exists
             THEN /\ result' = Raise("IOError")
                  /\ open_handles' = open_handles
             ELSE /\ open_handles < MaxHandles
                  \* h5py.File(...) is never closed; the dataset returned refers to it
                  /\ open_handles' = open_handles + 1
                  /\ result' = get_weights_result(f, layer_name, weight_name)
    /\ FreshEvaluator
    /\ FreshLoader
    /\ UNCHANGED <<module_globals, pc>>

\* =============================================================== evaluator

\* ------------------------------------------------------------ collaborators
\* The metric registry: the functions the metrics module exposes by name.
MetricNames == {"cc", "lli", "rmse", "fev"}

\* A metric is a pure function of a truth column and a prediction column; its
\* value is kept as the application itself.
Score(metric, t, p) == [metric |-> metric, truth |-> t, predictions |-> p]

\* The recorded response of sample k (from 0) of a split for one cell, and the
\* model's output for that sample and cell.
Response(stim, k, cell)   == <<"y", stim, k, cell>>
Prediction(stim, k, cell) == <<"p", stim, k, cell>>

\* loadexpt(cells, stim_type, 'test', 40, exptdate): the split restricted to
\* `cells`, one response column per entry of `cells`, in that order.
loadexpt(cells, stim_type, n) == [stim |-> stim_type, cells |-> cells, n |-> n]

YRow(data, k) == [i \in 1..Len(data.cells) |-> Response(data.stim, k, data.cells[i])]

\* model.predict on the stimulus of sample k: one output unit per cell of the split
PredictRow(data, k) == [i \in 1..Len(data.cells) |-> Prediction(data.stim, k, data.cells[i])]

NumBatches(n) == (n + BatchSize - 1) \div BatchSize

\* datagen(batchsize, X, y, shuffle=False): consecutive batches of batchsize
\* samples, the last one possibly shorter, as ranges lo..hi of sample numbers.
datagen(batchsize, n) ==
    [b \in 1..((n + batchsize - 1) \div batchsize) |->
        [lo |-> (b - 1) * batchsize, hi |-> Min(b * batchsize, n) - 1]]

\* ------------------------------------------------------------------ inputs
StimTypes   == {"whitenoise", "natural"}
CellLists   == {<<0>>, <<0, 1>>, <<1, 0>>, <<3>>, <<2, 5>>}
MetricArgs  == {"cc", "rmse", "bogus"}
SampleCounts ==
    {0, 1, BatchSize, BatchSize + 1, MaxBatches * BatchSize + 1}

\* --------------------------------------------------------------- the calls
\* get_test_responses called directly (stim_type as given by the caller)
get_test_responses ==
    /\ pc = "idle"
    /\ \E stim \in StimTypes, cells \in CellLists, n \in SampleCounts :
          call' = [op |-> "get_test_responses",
                   args |-> [stim_type |-> stim, cells |-> cells, metric |-> "", n |-> n]]
    /\ pc' = "loadexpt"
    /\ result' = NoResult
    /\ FreshEvaluator
    /\ FreshLoader
    /\ UNCHANGED <<module_globals, open_handles>>

\* Faulty variant: the metric name is checked before anything else is done.
get_performance_check_first ==
    /\ pc = "idle"
    /\ \E stim \in StimTypes, cells \in CellLists, metric \in MetricArgs, n \in SampleCounts :
          /\ call' = [op |-> "get_performance",
                      args |-> [stim_type |-> stim, cells |-> cells, metric |-> metric, n |-> n]]
          /\ IF metric \in MetricNames
             THEN pc' = "loadexpt" /\ result' = NoResult
             ELSE pc' = "idle" /\ result' = Raise("AttributeError")
    /\ FreshEvaluator
    /\ FreshLoader
    /\ UNCHANGED <<module_globals, open_handles>>

\* get_performance(model, stim_type, cells, metric): line 137 enters
\* get_test_responses(model, stim_type=stim_type, cells=cells)
get_performance ==
    /\ pc = "idle"
    /\ \E stim \in StimTypes, cells \in CellLists, metric \in MetricArgs, n \in SampleCounts :
          call' = [op |-> "get_performance",
                   args |-> [stim_type |-> stim, cells |-> cells, metric |-> metric, n |-> n]]
    /\ pc' = "loadexpt"
    /\ result' = NoResult
    /\ FreshEvaluator
    /\ FreshLoader
    /\ UNCHANGED <<module_globals, open_handles>>

\* get_correlation(model, stim_type, cells, metric): line 112 enters
\* get_test_responses(model, stim_type=stim_type, cells=cells)
get_correlation ==
    /\ pc = "idle"
    /\ \E stim \in StimTypes, cells \in CellLists, metric \in MetricArgs, n \in SampleCounts :
          call' = [op |-> "get_correlation",
                   args |-> [stim_type |-> stim, cells |-> cells, metric |-> metric, n |-> n]]
    /\ pc' = "loadexpt"
    /\ result' = NoResult
    /\ FreshEvaluator
    /\ FreshLoader
    /\ UNCHANGED <<module_globals, open_handles>>

\* ------------------------------------------------- get_test_responses, body
\* line 96: test_data = loadexpt(cells, stim_type, 'test', 40, exptdate=exptdate)
gtr_loadexpt ==
    /\ pc = "loadexpt"
    /\ test_data' = loadexpt(call.args.cells, call.args.stim_type, call.args.n)
    /\ pc' = "datagen"
    /\ UNCHANGED <<module_globals, call, result, open_handles, loader,
                   batches, truth, predictions, forward, metric_func>>

\* line 100, entering the loop: the global name datagen is looked up and the
\* generator made; NameError ends the call when the name is not bound
gtr_datagen ==
    /\ pc = "datagen"
    /\ IF "datagen" \in module_globals
       THEN /\ batches' = datagen(BatchSize, test_data.n)
            /\ pc' = "batch"
            /\ result' = result
       ELSE /\ batches' = batches
            /\ pc' = "idle"
            /\ result' = Raise("NameError")
    /\ UNCHANGED <<module_globals, call, open_handles, loader,
                   test_data, truth, predictions, forward, metric_func>>

\* truth.extend(y)
extend_truth(t, data, batch) ==
    t \o [j \in 1..(batch.hi - batch.lo + 1) |-> YRow(data, batch.lo + j - 1)]

\* predictions.extend(model.predict(X))
extend_predictions(p, data, batch) ==
    p \o [j \in 1..(batch.hi - batch.lo + 1) |-> PredictRow(data, batch.lo + j - 1)]

\* lines 100-102: one turn of the loop
gtr_batch ==
    /\ pc = "batch"
    /\ batches # <<>>
    /\ truth' = extend_truth(truth, test_data, Head(batches))
    /\ predictions' = extend_predictions(predictions, test_data, Head(batches))
    /\ forward' = forward + 1
    /\ batches' = Tail(batches)
    /\ UNCHANGED <<module_globals, pc, call, result, open_handles, loader,
                   test_data, metric_func>>

\* lines 104-107: the generator is exhausted; the lists become arrays and are
\* returned, to the caller of a direct call or to line 112 / 137
gtr_return ==
    /\ pc = "batch"
    /\ batches = <<>>
    /\ IF call.op = "get_test_responses"
       THEN /\ result' = Return(<<truth, predictions>>)
            /\ pc' = "idle"
       ELSE /\ result' = result
            /\ pc' = "getattr"
    /\ UNCHANGED <<module_globals, call, open_handles, loader, evaluator>>

\* ------------------------------------------------------------ metric lookup
\* Faulty variant: an unknown name falls back to the correlation coefficient.
getattr_fallback(metric) ==
    IF metric \in MetricNames THEN Return(metric) ELSE Return("cc")

\* getattr(metrics, metric)
getattr_metrics(metric) ==
    IF metric \in MetricNames THEN Return(metric) ELSE Raise("AttributeError")

\* line 114 / line 140
metric_lookup ==
    /\ pc = "getattr"
    /\ LET r == getattr_metrics(call.args.metric) IN
          IF r.status = "return"
          THEN /\ metric_func' = r.value
               /\ pc' = "score"
               /\ result' = result
          ELSE /\ metric_func' = metric_func
               /\ pc' = "idle"
               /\ result' = r
    /\ UNCHANGED <<module_globals, call, open_handles, loader,
                   test_data, batches, truth, predictions, forward>>

\* ---------------------------------------------------------------- scoring
\* numpy's a[:, c] on np.array(rows): an array made from no rows has one
\* dimension, and indexing it with two raises IndexError
ColumnOK(mat, c) == Len(mat) > 0 /\ PyIndexOK(mat[1], c)

Column(mat, c) == [k \in 1..Len(mat) |-> PyIndex(mat[k], c)]

\* [metric_func(truth[:, c], predictions[:, c]) for c in cells]
test_results(func, t, p, cells) ==
    IF \E i \in 1..Len(cells) : ~ColumnOK(t, cells[i]) \/ ~ColumnOK(p, cells[i])
    THEN Raise("IndexError")
    ELSE Return([i \in 1..Len(cells) |-> Score(func, Column(t, cells[i]), Column(p, cells[i]))])

\* lines 116-120 / lines 143-145
score ==
    /\ pc = "score"
    /\ result' = test_results(metric_func, truth, predictions, call.args.cells)
    /\ pc' = "idle"
    /\ UNCHANGED <<module_globals, call, open_handles, loader, evaluator>>

\* ------------------------------------------------------------ specification
Next ==
    \/ load_model
    \/ load_partial_model
    \/ list_layers
    \/ get_weights
    \/ get_test_responses
    \/ get_performance
    \/ get_correlation
    \/ gtr_loadexpt
    \/ gtr_datagen
    \/ gtr_batch
    \/ gtr_return
    \/ metric_lookup
    \/ score

Spec == Init /\ [][Next]_vars

\* The sessions in which the name datagen resolves, so that the code after
\* line 100 runs.
InitResolved == Init /\ "datagen" \in module_globals

SpecResolved == InitResolved /\ [][Next]_vars

\* ================================================================ properties

Finished(op) == pc = "idle" /\ call.op = op

\* What the split holds for one cell: the recorded responses and the model's
\* outputs of samples 0..n-1, in order.
TruthColumn(stim, n, cell)      == [k \in 1..n |-> Response(stim, k - 1, cell)]
PredictionColumn(stim, n, cell) == [k \in 1..n |-> Prediction(stim, k - 1, cell)]

\* C1: on a split with samples, get_performance with a recognized metric returns
\* one score per entry of cells, the i-th being the metric of the truth and
\* prediction columns of cell cells[i].
C1_ScorePerRequestedCell ==
    (Finished("get_performance") /\ call.args.metric \in MetricNames /\ call.args.n > 0) =>
        LET a == call.args IN
        /\ result.status = "return"
        /\ Len(result.value) = Len(a.cells)
        /\ \A i \in 1..Len(a.cells) :
              result.value[i] = Score(a.metric,
                                      TruthColumn(a.stim_type, a.n, a.cells[i]),
                                      PredictionColumn(a.stim_type, a.n, a.cells[i]))

\* C2: get_test_responses returns truth and predictions of exactly N rows each,
\* one column per cell, row k being sample k's recorded response and the
\* model's output for sample k.
C2_ResponsesCompleteInOrder ==
    Finished("get_test_responses") =>
        LET a == call.args IN
        /\ result.status = "return"
        /\ Len(result.value[1]) = a.n
        /\ Len(result.value[2]) = a.n
        /\ \A k \in 1..a.n :
              /\ Len(result.value[1][k]) = Len(a.cells)
              /\ Len(result.value[2][k]) = Len(a.cells)
              /\ \A i \in 1..Len(a.cells) :
                    /\ result.value[1][k][i] = Response(a.stim_type, k - 1, a.cells[i])
                    /\ result.value[2][k][i] = Prediction(a.stim_type, k - 1, a.cells[i])

PrintedRows == SelectSeq(printed, LAMBDA line : line.kind = "row")

ExpectedRow(g) ==
    IF Len(g.datasets) = 2
    THEN Row(<<encode(g.name), encode(g.datasets[1].name), encode(g.datasets[2].name)>>)
    ELSE Row(<<encode(g.name), EmptyStr, EmptyStr>>)

RowPerGroup(f) ==
    /\ result.status = "return"
    /\ Len(PrintedRows) = Len(f.groups)
    /\ \A i \in 1..Len(f.groups) : PrintedRows[i] = ExpectedRow(f.groups[i])

\* C4 (as stated): for a weight file whose groups hold zero, one or two datasets,
\* list_layers completes and prints one row per group in enumeration order, with
\* both names for a group of two datasets and a blank row otherwise.
C4_RowPerGroupUpToTwo ==
    (Finished("list_layers") /\ call.args.file.exists
       /\ \A i \in 1..Len(call.args.file.groups) : Len(call.args.file.groups[i].datasets) <= 2) =>
        RowPerGroup(call.args.file)

\* C4 (amended): for a weight file whose groups hold zero or two datasets,
\* list_layers completes and prints one row per group in enumeration order, with
\* both names for a group of two datasets and a blank row for an empty group.
C4_RowPerGroupZeroOrTwo ==
    (Finished("list_layers") /\ call.args.file.exists
       /\ \A i \in 1..Len(call.args.file.groups) :
             Len(call.args.file.groups[i].datasets) \in {0, 2}) =>
        RowPerGroup(call.args.file)

C4_Witness ==
    /\ Finished("list_layers")
    /\ call.args.file.id = "conv.h5"
    /\ result.status = "return"
    /\ Len(PrintedRows) = 3
    /\ PrintedRows[2].cols = <<layer_1, EmptyStr, EmptyStr>>

\* C5 (as stated): load_partial_model returns a function exactly when
\* 0 <= layer_id < number of layers, its output being that layer's activation;
\* every other layer_id, negative ones included, raises.
C5_OnlyFrontIndices ==
    Finished("load_partial_model") =>
        LET a == call.args IN
        IF 0 <= a.layer_id /\ a.layer_id < a.n
        THEN /\ result.status = "return"
             /\ result.value.outputs = <<"output", a.layer_id>>
        ELSE /\ result.status = "raise"
             /\ result.value = None

\* C5 (amended): load_partial_model returns a function exactly when
\* -n <= layer_id < n for a model of n layers; its output is the activation of
\* layer layer_id, or of layer n + layer_id when layer_id is negative; every
\* other layer_id raises IndexError and no function is returned.
C5_PythonIndexRange ==
    Finished("load_partial_model") =>
        LET a == call.args IN
        IF -a.n <= a.layer_id /\ a.layer_id < a.n
        THEN /\ result.status = "return"
             /\ result.value.inputs = <<(<<"input", 0>>)>>
             /\ result.value.outputs =
                   <<"output", IF a.layer_id >= 0 THEN a.layer_id ELSE a.n + a.layer_id>>
        ELSE /\ result = Raise("IndexError")

C5_Witness ==
    /\ Finished("load_partial_model")
    /\ call.args.n = MaxLayers
    /\ call.args.layer_id = -1
    /\ result.status = "return"
    /\ result.value.outputs = <<"output", MaxLayers - 1>>

\* C6: whenever no call is running, no file handle opened by a call is open.
C6_NoHandleLeftOpen ==
    pc = "idle" => (open_handles = 0 /\ ~arch_open)

\* C7: load_model returns the model of architecture.json with the weights of
\* weight_file loaded when both files are good; otherwise it raises and returns
\* nothing; either file is opened at most once.
C7_LoadModelAllOrNothing ==
    Finished("load_model") =>
        LET a == call.args IN
        /\ arch_opens <= 1
        /\ weight_opens <= 1
        /\ ~arch_open
        /\ IF a.arch = "ok" /\ a.wstate = "ok"
           THEN result = Return([architecture |-> "architecture.json",
                                 weights |-> a.weight_filename])
           ELSE result.status = "raise" /\ result.value = None

C7_Witness ==
    /\ Finished("load_model")
    /\ call.args.arch = "ok"
    /\ call.args.wstate = "incompatible"
    /\ result.status = "raise"
    /\ weight_opens = 1

\* C8: get_weights returns the dataset stored under the layer name and slot
\* name given (param_0 and param_1 of one layer being different entries of the
\* file), and raises, returning nothing, when the layer or the slot is absent.
C8_GetWeightsBySlot ==
    (Finished("get_weights") /\ call.args.file.exists) =>
        LET a == call.args
            g == a.file.groups
            Stored == {<<i, j>> \in (1..Len(g)) \X (1..2) :
                          /\ j <= Len(g[i].datasets)
                          /\ g[i].name = a.layer_name
                          /\ g[i].datasets[j].name = a.weight_name}
        IN
        IF Stored # {}
        THEN /\ result.status = "return"
             /\ \A e \in Stored :
                   /\ result.value = g[e[1]].datasets[e[2]].tensor
                   /\ \A j \in 1..Len(g[e[1]].datasets) :
                         j # e[2] => result.value # g[e[1]].datasets[j].tensor
        ELSE result = Raise("KeyError")

C8_Witness ==
    /\ Finished("get_weights")
    /\ call.args.file.id = "conv.h5"
    /\ call.args.layer_name = layer_0
    /\ call.args.weight_name = param_1
    /\ result = Return("b0")

====
